---- MODULE Spec2Model ----
(***************************************************************************)
(* Model of src/app.py (Prospectador B2B): discovery of companies by CNAE  *)
(* through two scraping sources, deduplication by CNPJ, and enrichment of  *)
(* each company through three registry APIs tried in a fixed order.        *)
(*                                                                         *)
(* Text is modelled as a sequence of one-character strings, so that        *)
(* limpa_cnpj, formata_cnpj and strip really transform their argument.     *)
(* A Python dict is a function from key strings to values; {} is <<>>.     *)
(***************************************************************************)
EXTENDS Integers, Sequences, FiniteSets, TLC

\* ------------------------------------------------------------------------
\* Bounds of the model
\* ------------------------------------------------------------------------

\* largest number of CNAEs one run walks through (slider "Máx. CNAEs")
MaxCnaes == 1

\* largest value of the slider "Máx. empresas por CNAE" that is explored; the
\* slider goes from 5 to 50, the pages of the model have up to two entries,
\* so 1 stands for a limit below the position of the first usable entry
MaxEmpresas == 2

\* ------------------------------------------------------------------------
\* Program constants
\* ------------------------------------------------------------------------

\* length of a valid CNPJ after cleaning (len(c) == 14)
TamanhoCnpj == 14

\* number of simulated companies added per CNAE when the checkbox is set
QtdSimuladas == 3

\* ------------------------------------------------------------------------
\* Text utilities
\* ------------------------------------------------------------------------

Digitos == {"0", "1", "2", "3", "4", "5", "6", "7", "8", "9"}

IsDigit(ch) == ch \in Digitos

\* n copies of the character ch
Rep(ch, n) == [k \in 1..n |-> ch]

\* s[a:b] of Python with 0-based half-open bounds a, b (clamped)
Slice(s, a, b) ==
    LET hi == IF b < Len(s) THEN b ELSE Len(s)
    IN  IF a >= hi THEN <<>> ELSE [k \in 1..(hi - a) |-> s[a + k]]

\* re.sub(r"\D", "", str(cnpj or "")): the digits of cnpj, in order
limpa_cnpj(cnpj) == SelectSeq(cnpj, IsDigit)

\* f"{c[:2]}.{c[2:5]}.{c[5:8]}/{c[8:12]}-{c[12:]}" when c has 14 digits,
\* the argument itself otherwise
formata_cnpj(cnpj) ==
    LET c == limpa_cnpj(cnpj)
    IN  IF Len(c) = TamanhoCnpj
        THEN Slice(c, 0, 2) \o <<".">> \o Slice(c, 2, 5) \o <<".">> \o Slice(c, 5, 8)
             \o <<"/">> \o Slice(c, 8, 12) \o <<"-">> \o Slice(c, 12, Len(c))
        ELSE cnpj

\* get_text(strip=True): leading and trailing blanks removed
RECURSIVE LStrip(_)
LStrip(s) == IF s # <<>> /\ Head(s) = " " THEN LStrip(Tail(s)) ELSE s

RECURSIVE RStrip(_)
RStrip(s) ==
    IF s # <<>> /\ s[Len(s)] = " " THEN RStrip(SubSeq(s, 1, Len(s) - 1)) ELSE s

Strip(s) == RStrip(LStrip(s))

\* re.search(r"(\d{14})", href): the first run of 14 digits, <<>> when none
RECURSIVE BuscaCnpjHref(_)
BuscaCnpjHref(href) ==
    IF Len(href) < TamanhoCnpj THEN <<>>
    ELSE IF \A k \in 1..TamanhoCnpj : IsDigit(href[k])
         THEN SubSeq(href, 1, TamanhoCnpj)
         ELSE BuscaCnpjHref(Tail(href))

\* dict.get(k, default)
Get(d, k, default) == IF k \in DOMAIN d THEN d[k] ELSE default

\* the empty dict {}
DictVazio == <<>>

\* ------------------------------------------------------------------------
\* HTTP
\* ------------------------------------------------------------------------

\* What the network can answer to one requests.get: a timeout, a non-2xx
\* status (raise_for_status raises HTTPError), a 2xx response with a body,
\* or an exception that is no RequestException.
Timeout == [rede |-> "timeout"]
StatusErro == [rede |-> "status"]
OutraExcecao == [rede |-> "excecao"]
Ok(corpo) == [rede |-> "ok", corpo |-> corpo]

\* the value None
None == [tipo |-> "None"]

\* an exception leaving the callee
Raise == [tipo |-> "raise"]

\* the body of http_get: the Response on a 2xx answer, None on a
\* RequestException; any other exception is not caught
http_get(resposta) ==
    CASE resposta.rede = "ok" -> [tipo |-> "Response", corpo |-> resposta.corpo]
      [] resposta.rede \in {"timeout", "status"} -> None
      [] OTHER -> Raise

\* ------------------------------------------------------------------------
\* st.cache_data
\* ------------------------------------------------------------------------
\* A cache maps the arguments of a call to the value the call returned and
\* the time it returned.  Time is counted in quarters of an hour.

\* ttl=60 * 30 of http_get and of the two discovery functions
TtlDescoberta == 2

\* a cache without entries
CacheVazio == <<>>

\* the three caches of the discovery, empty
CachesVazios == [http |-> CacheVazio, cnpja |-> CacheVazio, consulta |-> CacheVazio]

\* a cache whose entries last a quarter of an hour less
NoCacheMaisCurto(cache, chave, agora) ==
    chave \in DOMAIN cache /\ agora - cache[chave].hora < TtlDescoberta - 1

\* the cache holds for the key an entry younger than the time to live
NoCache(cache, chave, agora) ==
    chave \in DOMAIN cache /\ agora - cache[chave].hora < TtlDescoberta

\* the cache after a call with the key returned valor: every value returned
\* is kept, None and [] too
Guarda(cache, chave, valor, agora) ==
    (chave :> [valor |-> valor, hora |-> agora]) @@ cache

\* http_get as decorated: the value of the cache when it holds one, else the
\* body, whose value is kept unless it raises; pedidos counts the requests
\* sent to the network
http_get_cached(cache, url, resposta, agora) ==
    IF NoCache(cache, url, agora)
    THEN [ret |-> cache[url].valor, cache |-> cache, pedidos |-> 0]
    ELSE LET r == http_get(resposta)
         IN  [ret |-> r,
              cache |-> IF r.tipo = "raise" THEN cache ELSE Guarda(cache, url, r, agora),
              pedidos |-> 1]

\* ------------------------------------------------------------------------
\* Registry APIs
\* ------------------------------------------------------------------------

\* What one adapter call did: the dict it returned (or that it raised) and
\* the number of http_get calls it made.
Retorno(valor, n) == [raise |-> FALSE, valor |-> valor, http |-> n]
Levantou(n) == [raise |-> TRUE, valor |-> DictVazio, http |-> n]

\* The keys CNPJ, Razão Social, Nome Fantasia, Email and Fonte of the dict an
\* adapter builds; its other keys are filled from the payload the same way.
consultar_cnpj_brasilapi(cnpj, resposta) ==
    LET c == limpa_cnpj(cnpj)
        r == http_get(resposta)
    IN  IF Len(c) # TamanhoCnpj THEN Retorno(DictVazio, 0)
        ELSE IF r.tipo = "raise" THEN Levantou(1)
        ELSE IF r.tipo = "None" THEN Retorno(DictVazio, 1)
        ELSE IF ~r.corpo.json THEN Retorno(DictVazio, 1)
        ELSE LET data == r.corpo.data
             IN  Retorno([CNPJ |-> formata_cnpj(Get(data, "cnpj", <<>>)),
                          RazaoSocial |-> Get(data, "razao_social", <<>>),
                          NomeFantasia |-> Get(data, "nome_fantasia", <<>>),
                          Email |-> Get(data, "email", <<>>),
                          Fonte |-> <<"BrasilAPI">>], 1)

consultar_cnpj_receitaws(cnpj, resposta) ==
    LET c == limpa_cnpj(cnpj)
        r == http_get(resposta)
    IN  IF Len(c) # TamanhoCnpj THEN Retorno(DictVazio, 0)
        ELSE IF r.tipo = "raise" THEN Levantou(1)
        ELSE IF r.tipo = "None" THEN Retorno(DictVazio, 1)
        ELSE IF ~r.corpo.json THEN Retorno(DictVazio, 1)
        ELSE LET data == r.corpo.data
             IN  IF Get(data, "status", <<>>) = <<"ERROR">>
                 THEN Retorno(DictVazio, 1)
                 ELSE Retorno([CNPJ |-> formata_cnpj(Get(data, "cnpj", <<>>)),
                               RazaoSocial |-> Get(data, "nome", <<>>),
                               NomeFantasia |-> Get(data, "fantasia", <<>>),
                               Email |-> Get(data, "email", <<>>),
                               Fonte |-> <<"ReceitaWS">>], 1)

\* an adapter that sends its request before looking at the length of the id
ConsultaSemConferir(cnpj, resposta) ==
    LET r == http_get(resposta)
    IN  IF r.tipo = "raise" THEN Levantou(1)
        ELSE IF r.tipo = "None" THEN Retorno(DictVazio, 1)
        ELSE IF ~r.corpo.json THEN Retorno(DictVazio, 1)
        ELSE LET data == r.corpo.data
                 estabelecimento == Get(data, "estabelecimento", DictVazio)
             IN  Retorno([CNPJ |-> formata_cnpj(Get(estabelecimento, "cnpj", <<>>)),
                          RazaoSocial |-> Get(data, "razao_social", <<>>),
                          NomeFantasia |-> Get(estabelecimento, "nome_fantasia", <<>>),
                          Email |-> Get(estabelecimento, "email", <<>>),
                          Fonte |-> <<"CNPJ.ws">>], 1)

consultar_cnpj_cnpjws(cnpj, resposta) ==
    LET c == limpa_cnpj(cnpj)
        r == http_get(resposta)
    IN  IF Len(c) # TamanhoCnpj THEN Retorno(DictVazio, 0)
        ELSE IF r.tipo = "raise" THEN Levantou(1)
        ELSE IF r.tipo = "None" THEN Retorno(DictVazio, 1)
        ELSE IF ~r.corpo.json THEN Retorno(DictVazio, 1)
        ELSE LET data == r.corpo.data
                 estabelecimento == Get(data, "estabelecimento", DictVazio)
             IN  Retorno([CNPJ |-> formata_cnpj(Get(estabelecimento, "cnpj", <<>>)),
                          RazaoSocial |-> Get(data, "razao_social", <<>>),
                          NomeFantasia |-> Get(estabelecimento, "nome_fantasia", <<>>),
                          Email |-> Get(estabelecimento, "email", <<>>),
                          Fonte |-> <<"CNPJ.ws">>], 1)

\* apis = [consultar_cnpj_brasilapi, consultar_cnpj_receitaws, consultar_cnpj_cnpjws]
apis == <<"BrasilAPI", "ReceitaWS", "CNPJ.ws">>

\* api_func(cnpj) for the k-th entry of apis
api_func(k, cnpj, resposta) ==
    CASE apis[k] = "BrasilAPI" -> consultar_cnpj_brasilapi(cnpj, resposta)
      [] apis[k] = "ReceitaWS" -> consultar_cnpj_receitaws(cnpj, resposta)
      [] OTHER -> consultar_cnpj_cnpjws(cnpj, resposta)

\* "resultado and resultado.get("CNPJ")" of consultar_cnpj_multiplas_fontes
Aproveitavel(resultado) ==
    resultado # DictVazio /\ Get(resultado, "CNPJ", <<>>) # <<>>

\* ------------------------------------------------------------------------
\* Discovery: scraping of company lists
\* ------------------------------------------------------------------------

\* A page is what BeautifulSoup finds in r.text:
\*   links   the <a> elements whose href matches /empresa/ or /cnpj/
\*           ([padrao, href, texto]), in document order
\*   tabelas the <table> elements, each the list of its <tr>, each the list
\*           of the texts of its <td>/<th>
\*   cards   the elements selected by "div.card, div.empresa, ..."
\*           ([tem_nome, nome, tem_cnpj, cnpj])
\*   quebrada  parsing the page raises
Pagina(links, tabelas, cards) ==
    [quebrada |-> FALSE, links |-> links, tabelas |-> tabelas, cards |-> cards]

PaginaQuebrada ==
    [quebrada |-> TRUE, links |-> <<>>, tabelas |-> <<>>, cards |-> <<>>]

\* the stub a discovery function appends
Empresa(nome, cnpj, origem) == [Nome |-> nome, CNPJ |-> cnpj, Origem |-> origem]

\* soup.find_all("a", href=re.compile(r"/empresa/")), and the /cnpj/ links
\* when there is none
LinksEmpresas(pagina) ==
    LET porEmpresa == SelectSeq(pagina.links, LAMBDA l : l.padrao = "empresa")
    IN  IF porEmpresa # <<>> THEN porEmpresa
        ELSE SelectSeq(pagina.links, LAMBDA l : l.padrao = "cnpj")

\* for link in links_empresas[:max_empresas]: ... empresas.append(...)
RECURSIVE ExtraiLinks(_, _)
ExtraiLinks(links, cnae_code) ==
    IF links = <<>> THEN <<>>
    ELSE LET link == Head(links)
             cnpj == BuscaCnpjHref(link.href)
             nome == Strip(link.texto)
             resto == ExtraiLinks(Tail(links), cnae_code)
         IN  IF cnpj # <<>> /\ nome # <<>>
             THEN <<Empresa(nome, cnpj, <<"CNPJa - CNAE", cnae_code>>)>> \o resto
             ELSE resto

\* for linha in linhas[1:max_empresas]: ... empresas.append(...)
RECURSIVE ExtraiLinhas(_, _)
ExtraiLinhas(linhas, cnae_code) ==
    IF linhas = <<>> THEN <<>>
    ELSE LET colunas == Head(linhas)
             resto == ExtraiLinhas(Tail(linhas), cnae_code)
         IN  IF Len(colunas) >= 2
             THEN LET possivel_nome == Strip(colunas[1])
                      cnpj_numeros == limpa_cnpj(Strip(colunas[2]))
                  IN  IF Len(cnpj_numeros) = TamanhoCnpj
                      THEN <<Empresa(possivel_nome, cnpj_numeros,
                                     <<"CNPJa Tabela - CNAE", cnae_code>>)>> \o resto
                      ELSE resto
             ELSE resto

\* for tabela in tabelas: for linha in linhas[1:max_empresas]: ...
RECURSIVE ExtraiTabelas(_, _, _)
ExtraiTabelas(tabelas, cnae_code, max_empresas) ==
    IF tabelas = <<>> THEN <<>>
    ELSE ExtraiLinhas(Slice(Head(tabelas), 1, max_empresas), cnae_code)
         \o ExtraiTabelas(Tail(tabelas), cnae_code, max_empresas)

\* the try block of buscar_empresas_cnpja_scraping on the page it fetched
ParseCnpja(pagina, cnae_code, max_empresas) ==
    LET empresas ==
            ExtraiLinks(Slice(LinksEmpresas(pagina), 0, max_empresas), cnae_code)
    IN  IF empresas # <<>> THEN empresas
        ELSE ExtraiTabelas(pagina.tabelas, cnae_code, max_empresas)

\* re.sub(r'\D', '', cnae_code)
cnae_limpo(cnae_code) == SelectSeq(cnae_code, IsDigit)

\* uf.lower()
Minusculas(uf) == CASE uf = "PA" -> "pa" [] uf = "MG" -> "mg" [] OTHER -> uf

\* f"https://cnpja.com/cnae/{cnae_limpo}"
UrlCnpja(cnae_code) == <<"https://cnpja.com/cnae/", cnae_limpo(cnae_code)>>

\* the body of buscar_empresas_cnpja_scraping after its http_get returned r:
\* [] when r is None or the parsing raised
CorpoCnpja(r, cnae_code, max_empresas) ==
    IF r.tipo = "None" THEN <<>>
    ELSE IF r.corpo.quebrada THEN <<>>
    ELSE ParseCnpja(r.corpo, cnae_code, max_empresas)

\* What a call of a discovery function did: the list it returned (or that it
\* raised), the requests sent to the network, the URLs it went through and
\* the caches after it.
Coletado(valor, pedidos, tentativas, caches) ==
    [raise |-> FALSE, valor |-> valor, pedidos |-> pedidos,
     tentativas |-> tentativas, caches |-> caches]
ColetaLevantou(pedidos, tentativas, caches) ==
    [raise |-> TRUE, valor |-> <<>>, pedidos |-> pedidos,
     tentativas |-> tentativas, caches |-> caches]

\* buscar_empresas_cnpja_scraping as decorated, with the caches as they are
\* at the time agora and what the network answers if it is asked
buscar_empresas_cnpja_scraping(caches, cnae_code, uf, max_empresas, resposta, agora) ==
    LET chave == <<cnae_code, uf, max_empresas>>
    IN  IF NoCache(caches.cnpja, chave, agora)
        THEN Coletado(caches.cnpja[chave].valor, 0, 0, caches)
        ELSE LET h == http_get_cached(caches.http, UrlCnpja(cnae_code), resposta, agora)
             IN  IF h.ret.tipo = "raise"
                 THEN ColetaLevantou(h.pedidos, 1, caches)
                 ELSE LET empresas == CorpoCnpja(h.ret, cnae_code, max_empresas)
                      IN  Coletado(empresas, h.pedidos, 1,
                                   [caches EXCEPT
                                       !.http = h.cache,
                                       !.cnpja = Guarda(@, chave, empresas, agora)])

\* for card in cards[:max_empresas]: ... empresas.append(...)
RECURSIVE ExtraiCards(_, _)
ExtraiCards(cards, cnae_code) ==
    IF cards = <<>> THEN <<>>
    ELSE LET card == Head(cards)
             nome == Strip(card.nome)
             cnpj_texto == IF card.tem_cnpj THEN Strip(card.cnpj) ELSE <<>>
             cnpj_nums == limpa_cnpj(cnpj_texto)
             resto == ExtraiCards(Tail(cards), cnae_code)
         IN  IF card.tem_nome /\ nome # <<>> /\ Len(cnpj_nums) = TamanhoCnpj
             THEN <<Empresa(nome, cnpj_nums, <<"ConsultaCNPJ - CNAE", cnae_code>>)>>
                  \o resto
             ELSE resto

\* the try block of one turn of "for url in urls_tentativas": the companies
\* of the page, [] when the parsing raised
ParseConsulta(pagina, cnae_code, max_empresas) ==
    IF pagina.quebrada THEN <<>>
    ELSE ExtraiCards(Slice(pagina.cards, 0, max_empresas), cnae_code)

\* number of entries of urls_tentativas
NumUrlsTentativas == 4

\* CNAES_MINERACAO.get(cnae_code, "mineracao") turned into a slug; the slugs
\* of the descriptions of two CNAEs differ
cnae_slug(cnae_code) == <<"slug", cnae_code>>

\* urls_tentativas
urls_tentativas(cnae_code, uf) ==
    << <<"https://consultacnpj.com/empresas/", cnae_limpo(cnae_code), Minusculas(uf)>>,
       <<"https://consultacnpj.com/cnae/", cnae_limpo(cnae_code), Minusculas(uf)>>,
       <<"https://consultacnpj.com/busca/", cnae_slug(cnae_code), Minusculas(uf)>>,
       <<"https://consultacnpj.com/", cnae_limpo(cnae_code)>> >>

\* "for url in urls_tentativas" from the k-th URL on, with the cache of
\* http_get as it is, pedidos requests sent so far, and what the network
\* answers to the request of each URL (respostas[k] for the k-th)
RECURSIVE ConsultaDesde(_, _, _, _, _, _, _, _)
ConsultaDesde(k, cache_http, pedidos, respostas, cnae_code, uf, max_empresas, agora) ==
    IF k > NumUrlsTentativas
    THEN [raise |-> FALSE, valor |-> <<>>, pedidos |-> pedidos,
          tentativas |-> NumUrlsTentativas, cache |-> cache_http]
    ELSE LET h == http_get_cached(cache_http, urls_tentativas(cnae_code, uf)[k],
                                  respostas[k], agora)
             empresas == IF h.ret.tipo = "None" THEN <<>>
                         ELSE ParseConsulta(h.ret.corpo, cnae_code, max_empresas)
         IN  IF h.ret.tipo = "raise"
             THEN [raise |-> TRUE, valor |-> <<>>, pedidos |-> pedidos + h.pedidos,
                   tentativas |-> k, cache |-> h.cache]
             ELSE IF empresas # <<>>
             THEN [raise |-> FALSE, valor |-> empresas, pedidos |-> pedidos + h.pedidos,
                   tentativas |-> k, cache |-> h.cache]
             ELSE ConsultaDesde(k + 1, h.cache, pedidos + h.pedidos, respostas,
                                cnae_code, uf, max_empresas, agora)

\* buscar_empresas_consultacnpj_alternativo as decorated: the companies of
\* the first URL that yields any, [] when none does
buscar_empresas_consultacnpj_alternativo(caches, cnae_code, uf, max_empresas, respostas, agora) ==
    LET chave == <<cnae_code, uf, max_empresas>>
    IN  IF NoCache(caches.consulta, chave, agora)
        THEN Coletado(caches.consulta[chave].valor, 0, 0, caches)
        ELSE LET c == ConsultaDesde(1, caches.http, 0, respostas, cnae_code, uf,
                                    max_empresas, agora)
             IN  IF c.raise
                 THEN ColetaLevantou(c.pedidos, c.tentativas,
                                     [caches EXCEPT !.http = c.cache])
                 ELSE Coletado(c.valor, c.pedidos, c.tentativas,
                               [caches EXCEPT
                                   !.http = c.cache,
                                   !.consulta = Guarda(@, chave, c.valor, agora)])

\* gerar_cnpjs_simulados_mineracao(uf, quantidade): quantidade stubs, each
\* with the CNPJ and the name the random draws gave (sorteio[k])
gerar_cnpjs_simulados_mineracao(sorteio, quantidade) ==
    [k \in 1..quantidade |->
        Empresa(sorteio[k].nome, sorteio[k].cnpj, <<"SIMULADO - APENAS TESTE">>)]

\* ------------------------------------------------------------------------
\* Deduplication by CNPJ
\* ------------------------------------------------------------------------

\* The loop "for emp in todas_empresas" from its i-th element on, with the
\* set cnpjs_vistos and the list empresas_unicas built so far.
RECURSIVE DedupLoop(_, _, _, _)
DedupLoop(todas, i, cnpjs_vistos, unicas) ==
    IF i > Len(todas) THEN unicas
    ELSE LET emp == todas[i]
             cnpj == limpa_cnpj(Get(emp, "CNPJ", <<>>))
         IN  IF cnpj # <<>> /\ cnpj \notin cnpjs_vistos
             THEN DedupLoop(todas, i + 1, cnpjs_vistos \cup {cnpj}, Append(unicas, emp))
             ELSE DedupLoop(todas, i + 1, cnpjs_vistos, unicas)

\* a pass that skips the first company
DedupSemPrimeira(todas) == DedupLoop(todas, 2, {}, <<>>)

\* a pass that compares the CNPJ as written, without cleaning it
RECURSIVE DedupSemLimpar(_)
DedupSemLimpar(todas) ==
    IF todas = <<>> THEN <<>>
    ELSE LET resto == DedupSemLimpar(SubSeq(todas, 1, Len(todas) - 1))
             emp == todas[Len(todas)]
         IN  IF emp.CNPJ # <<>> /\ \A j \in 1..Len(resto) : resto[j].CNPJ # emp.CNPJ
             THEN Append(resto, emp)
             ELSE resto

\* a pass that drops only the first company that repeats an earlier CNPJ
DedupUmaVez(todas) ==
    LET repetidas == {j \in 1..Len(todas) :
                         \E i \in 1..(j - 1) :
                             limpa_cnpj(todas[i].CNPJ) = limpa_cnpj(todas[j].CNPJ)}
    IN  IF repetidas = {} THEN todas
        ELSE LET j == CHOOSE m \in repetidas : \A n \in repetidas : m <= n
             IN  SubSeq(todas, 1, j - 1) \o SubSeq(todas, j + 1, Len(todas))

\* "Remove duplicatas por CNPJ": empresas_unicas from todas_empresas
Dedup(todas_empresas) == DedupLoop(todas_empresas, 1, {}, <<>>)

\* ------------------------------------------------------------------------
\* The inputs explored
\* ------------------------------------------------------------------------

\* the first keys of CNAES_MINERACAO, in the order of the dict
CNAES_MINERACAO ==
    << <<"0", "7", "1", "0", "-", "3", "/", "0", "1">>,
       <<"0", "7", "2", "1", "-", "9", "/", "0", "1">>,
       <<"0", "7", "2", "5", "-", "1", "/", "0", "0">> >>

\* the state the selectbox "Estado:" shows when the session starts
UFPadrao == "PA"

\* the states of the selectbox that are explored
UFs == {UFPadrao, "MG"}

CnpjA == Rep("1", TamanhoCnpj)
CnpjB == Rep("2", TamanhoCnpj)
CnpjSimulado == Rep("3", TamanhoCnpj)

NomeVale == <<"V", "A", "L", "E">>
NomeAlcoa == <<"A", "L", "C", "O", "A">>
NomeSimulado == <<"S", "I", "M">>
RazaoVale == <<"V", "A", "L", "E", " ", "S", "A">>
EmailVale == <<"c", "@", "v">>

\* a listing with two company links, the first with blanks around its text
PgLinks ==
    Pagina(<< [padrao |-> "empresa", href |-> <<"/", "e", "/">> \o CnpjA,
               texto |-> <<" ">> \o NomeVale \o <<" ">>],
              [padrao |-> "empresa", href |-> <<"/", "e", "/">> \o CnpjB,
               texto |-> NomeAlcoa] >>, <<>>, <<>>)

\* a listing without links, whose table has a header and a row with an
\* empty first cell and a formatted CNPJ
PgTabela ==
    Pagina(<<>>, << << <<NomeVale, <<"C", "N", "P", "J">> >>,
                       << <<>>, formata_cnpj(CnpjA) >> >> >>, <<>>)

\* a page with neither links, tables nor cards
PgVazia == Pagina(<<>>, <<>>, <<>>)

\* a page with two company cards, the first without a CNPJ
PgCards ==
    Pagina(<<>>, <<>>,
           << [tem_nome |-> TRUE, nome |-> NomeAlcoa,
               tem_cnpj |-> FALSE, cnpj |-> <<>>],
              [tem_nome |-> TRUE, nome |-> NomeVale,
               tem_cnpj |-> TRUE, cnpj |-> formata_cnpj(CnpjA)] >>)

\* what the network may answer to the request of buscar_empresas_cnpja_scraping
RespostasCnpja ==
    {Timeout, StatusErro, OutraExcecao,
     Ok(PgLinks), Ok(PgTabela), Ok(PgVazia), Ok(PaginaQuebrada)}

\* the answers to the requests of the URLs of urls_tentativas, in their
\* order: one answer to the first URL, another to the ones after it
Depois(primeira_resposta, demais) ==
    [k \in 1..NumUrlsTentativas |-> IF k = 1 THEN primeira_resposta ELSE demais]

\* what the network may answer to the requests of one call of
\* buscar_empresas_consultacnpj_alternativo: the site down, up, without
\* companies, unreadable, raising, or failing once before it answers
RespostasConsulta ==
    {Depois(Timeout, Timeout),
     Depois(Ok(PgCards), Ok(PgCards)),
     Depois(Ok(PgVazia), Ok(PgVazia)),
     Depois(Ok(PaginaQuebrada), Ok(PaginaQuebrada)),
     Depois(OutraExcecao, OutraExcecao),
     Depois(Timeout, Ok(PgCards)),
     Depois(StatusErro, Ok(PgCards)),
     Depois(Ok(PgVazia), Ok(PgCards)),
     Depois(Ok(PaginaQuebrada), Ok(PgCards)),
     Depois(Timeout, OutraExcecao)}

\* what the random draws of gerar_cnpjs_simulados_mineracao may give
Sorteios == [1..QtdSimuladas -> {[nome |-> NomeSimulado, cnpj |-> CnpjSimulado]}]

\* the JSON documents a registry API may send for the CNPJ c, by API
Payloads(k, c) ==
    CASE apis[k] = "BrasilAPI" ->
           {[cnpj |-> c, razao_social |-> RazaoVale, email |-> EmailVale],
            [message |-> <<"?">>]}
      [] apis[k] = "ReceitaWS" ->
           {[status |-> <<"OK">>, cnpj |-> formata_cnpj(c), nome |-> RazaoVale],
            [status |-> <<"ERROR">>, message |-> <<"?">>]}
      [] OTHER ->
           {[razao_social |-> RazaoVale,
             estabelecimento |-> [cnpj |-> c, nome_fantasia |-> NomeVale]],
            [razao_social |-> RazaoVale]}

\* what the network may answer to the request of the k-th API for the CNPJ c
RespostasApi(k, c) ==
    {Timeout, StatusErro, OutraExcecao, Ok([json |-> FALSE, data |-> DictVazio])}
    \cup {Ok([json |-> TRUE, data |-> d]) : d \in Payloads(k, c)}

\* ------------------------------------------------------------------------
\* The run of main() started by "Iniciar Prospecção de Mineradoras"
\* ------------------------------------------------------------------------
\* Spec follows one run from the button to the report, started with the
\* caches of st.cache_data empty.  Within a run every cached call has
\* arguments no earlier call of the run had (the CNAEs and so the URLs differ,
\* the CNPJs are unique after the deduplication), so each call runs its body.
\* SpecCache follows Etapa 1 over several runs of one session, with the
\* caches and the clock.  SpecDedup applies the deduplication pass to lists.

VARIABLES
    pc,                       \* where main() is
    cnaes_usar,               \* cnaes_usar[:max_cnaes]
    uf_selecionada,
    max_empresas_por_cnae,
    incluir_dados_simulados,
    i_cnae,                   \* the turn of the loop of Etapa 1
    todas_empresas,
    coleta,                   \* how the requests of each source ended, the turns
                              \* done, the companies the calls returned
    empresas_unicas,
    i_emp,                    \* the turn of the loop of Etapa 2
    i_api,                    \* the turn of the loop of multiplas_fontes
    chamadas,                 \* the API calls made for the latest company
    ultima,                   \* the latest API call: the id given, why it
                              \* ended as it did, the requests it sent
    resumo,                   \* per company enriched: calls made, success
    resultados_enriquecidos,
    resultados_finais,        \* st.session_state["resultados_finais"]
    mensagens,                \* the outcome messages shown
    agora,                    \* the clock, in quarters of an hour
    caches,                   \* the entries st.cache_data holds
    rodada,                   \* the runs started in the session
    pedidos_rodada,           \* discovery requests the run sent to the network
    primeira,                 \* the first run: its inputs, when it started,
                              \* whether its Etapa 1 ran to its end
    reaplicada,               \* the pass applied to empresas_unicas
    pagina                    \* the page a discovery function is called on

\* the variables a single run from empty caches leaves alone
extras == <<agora, caches, pedidos_rodada, reaplicada, pagina>>

vars ==
    <<pc, cnaes_usar, uf_selecionada, max_empresas_por_cnae,
      incluir_dados_simulados, i_cnae, todas_empresas, coleta, empresas_unicas,
      i_emp, i_api, chamadas, ultima, resumo, resultados_enriquecidos,
      resultados_finais, mensagens, agora, caches, rodada, pedidos_rodada,
      primeira, reaplicada, pagina>>

\* "no API called yet"
SemChamada == [api |-> "", causa |-> "", cnpj |-> <<>>, http |-> 0, vazio |-> TRUE]

\* "no run yet"
SemRodada == [cnaes |-> <<>>, uf |-> "", max_empresas |-> 0, inicio |-> 0,
              completa |-> FALSE]

Init ==
    /\ pc = "inicio"
    /\ cnaes_usar = <<>>
    /\ uf_selecionada = UFPadrao
    /\ max_empresas_por_cnae = 1
    /\ incluir_dados_simulados = FALSE
    /\ i_cnae = 1
    /\ todas_empresas = <<>>
    /\ coleta = [cnpja |-> {}, consulta |-> {}, turnos |-> 0, achadas |-> 0]
    /\ empresas_unicas = <<>>
    /\ i_emp = 1
    /\ i_api = 1
    /\ chamadas = <<>>
    /\ ultima = SemChamada
    /\ resumo = <<>>
    /\ resultados_enriquecidos = <<>>
    /\ resultados_finais = <<>>
    /\ mensagens = {}
    /\ agora = 0
    /\ caches = CachesVazios
    /\ rodada = 0
    /\ pedidos_rodada = 0
    /\ primeira = SemRodada
    /\ reaplicada = <<>>
    /\ pagina = PgVazia

\* The button is pressed for the first time in the session, in a mode that
\* searches and with the state left as the selectbox shows it: the sidebar
\* values are read, the results of the session are reset, Etapa 1 begins.
Iniciar ==
    /\ pc = "inicio"
    /\ \E max_cnaes \in 1..MaxCnaes :
           cnaes_usar' = Slice(CNAES_MINERACAO, 0, max_cnaes)
    /\ uf_selecionada' = UFPadrao
    /\ max_empresas_por_cnae' \in 1..MaxEmpresas
    /\ incluir_dados_simulados' \in BOOLEAN
    /\ resultados_finais' = <<>>
    /\ todas_empresas' = <<>>
    /\ i_cnae' = 1
    /\ pc' = "coleta"
    /\ rodada' = rodada + 1
    /\ primeira' = [cnaes |-> cnaes_usar', uf |-> uf_selecionada',
                    max_empresas |-> max_empresas_por_cnae', inicio |-> agora,
                    completa |-> FALSE]
    /\ UNCHANGED <<coleta, empresas_unicas, i_emp, i_api, chamadas, ultima,
                   resumo, resultados_enriquecidos, mensagens, extras>>

\* how a discovery request ended, for the record of the run
Desfecho(resposta) ==
    CASE resposta.rede # "ok" -> resposta.rede
      [] resposta.corpo.quebrada -> "parse"
      [] OTHER -> "ok"

\* a turn that drops what the second source found when the first failed
EstendeSemAlternativa(todas, empresas_cnpja, empresas_consulta, simuladas) ==
    todas \o empresas_cnpja
          \o (IF empresas_cnpja = <<>> THEN <<>> ELSE empresas_consulta)
          \o simuladas

\* todas_empresas after one turn of Etapa 1
EstendeTodas(todas, empresas_cnpja, empresas_consulta, simuladas) ==
    todas \o empresas_cnpja \o empresas_consulta \o simuladas

\* One turn of "for i, cnae in enumerate(cnaes_usar[:max_cnaes])": both
\* sources are asked, their companies and the simulated ones are added; coleta
\* records how the requests made ended.  An exception http_get does not catch
\* leaves main().
ColetaCnae ==
    /\ pc = "coleta"
    /\ i_cnae <= Len(cnaes_usar)
    /\ \E rc \in RespostasCnpja, rs \in RespostasConsulta,
          sorteio \in Sorteios :
         LET cnae == cnaes_usar[i_cnae]
             cnpja == buscar_empresas_cnpja_scraping(
                          CachesVazios, cnae, uf_selecionada,
                          max_empresas_por_cnae, rc, agora)
             consulta == buscar_empresas_consultacnpj_alternativo(
                             CachesVazios, cnae, uf_selecionada,
                             max_empresas_por_cnae, rs, agora)
             simuladas == IF incluir_dados_simulados
                          THEN gerar_cnpjs_simulados_mineracao(sorteio, QtdSimuladas)
                          ELSE <<>>
             consultas == {Desfecho(rs[k]) : k \in 1..consulta.tentativas}
         IN  IF cnpja.raise
             THEN /\ pc' = "abortado"
                  /\ coleta' = [coleta EXCEPT !.cnpja = @ \cup {Desfecho(rc)}]
                  /\ UNCHANGED <<todas_empresas, i_cnae>>
             ELSE IF consulta.raise
             THEN /\ pc' = "abortado"
                  /\ coleta' = [coleta EXCEPT !.cnpja = @ \cup {Desfecho(rc)},
                                              !.consulta = @ \cup consultas]
                  /\ UNCHANGED <<todas_empresas, i_cnae>>
             ELSE /\ todas_empresas' = EstendeTodas(
                         todas_empresas, cnpja.valor, consulta.valor, simuladas)
                  /\ coleta' = [cnpja |-> coleta.cnpja \cup {Desfecho(rc)},
                                consulta |-> coleta.consulta \cup consultas,
                                turnos |-> coleta.turnos + 1,
                                achadas |-> coleta.achadas + Len(cnpja.valor)
                                            + Len(consulta.valor) + Len(simuladas)]
                  /\ i_cnae' = i_cnae + 1
                  /\ pc' = IF i_cnae = Len(cnaes_usar) THEN "dedup" ELSE "coleta"
    /\ UNCHANGED <<rodada, primeira, extras>>
    /\ UNCHANGED <<cnaes_usar, uf_selecionada, max_empresas_por_cnae,
                   incluir_dados_simulados, empresas_unicas, i_emp, i_api,
                   chamadas, ultima, resumo, resultados_enriquecidos,
                   resultados_finais, mensagens>>

\* "Remove duplicatas por CNPJ", then the report of a search that found
\* nothing, or the start of Etapa 2.
Deduplicar ==
    /\ pc = "dedup"
    /\ empresas_unicas' = Dedup(todas_empresas)
    /\ IF empresas_unicas' = <<>>
       THEN /\ mensagens' = mensagens \cup {"nenhuma_empresa"}
            /\ pc' = "fim"
       ELSE /\ mensagens' = mensagens
            /\ pc' = "enriquecimento"
    /\ i_emp' = 1
    /\ i_api' = 1
    /\ resultados_enriquecidos' = <<>>
    /\ UNCHANGED <<rodada, primeira, extras>>
    /\ UNCHANGED <<cnaes_usar, uf_selecionada, max_empresas_por_cnae,
                   incluir_dados_simulados, i_cnae, todas_empresas, coleta,
                   chamadas, ultima, resumo, resultados_finais>>

\* a loop that copies the discovery name into the row it keeps
AnexaComNome(resultados, dados_completos, empresa) ==
    IF dados_completos # DictVazio
    THEN Append(resultados,
                [OrigemDaDescoberta |-> Get(empresa, "Origem", <<>>),
                 Nome |-> Get(empresa, "Nome", <<>>)] @@ dados_completos)
    ELSE resultados

\* a loop that keeps a row for every company, enriched or not
AnexaSempre(resultados, dados_completos, empresa) ==
    Append(resultados,
           [OrigemDaDescoberta |-> Get(empresa, "Origem", <<>>)] @@ dados_completos)

\* a loop in which the API that served a company also signs the rows kept
\* before
AnexaReassinando(resultados, dados_completos, empresa) ==
    IF dados_completos # DictVazio
    THEN Append([j \in 1..Len(resultados) |->
                    [resultados[j] EXCEPT !.Fonte = dados_completos.Fonte]],
                [OrigemDaDescoberta |-> Get(empresa, "Origem", <<>>)] @@ dados_completos)
    ELSE resultados

\* lines 523-526: the dict of the API, with the origin of the discovery
\* added, is kept when it is not empty
AnexaResultado(resultados, dados_completos, empresa) ==
    IF dados_completos # DictVazio
    THEN Append(resultados,
                [OrigemDaDescoberta |-> Get(empresa, "Origem", <<>>)] @@ dados_completos)
    ELSE resultados

\* a report that tells a failure by the number of companies found
RelatorioPorContagem(resultados) ==
    IF Len(resultados) > 1 THEN "concluida" ELSE "falha_enriquecimento"

\* lines 536-540: the message that closes Etapa 2
RelatorioFinal(resultados) ==
    IF resultados # <<>> THEN "concluida" ELSE "falha_enriquecimento"

\* why one call of an API gave what it gave, for the record of the run
Causa(resposta, res) ==
    CASE res.http = 0 -> "cnpj_invalido"
      [] resposta.rede # "ok" -> resposta.rede
      [] ~resposta.corpo.json -> "json_invalido"
      [] ~Aproveitavel(res.valor) -> "sem_dados"
      [] OTHER -> "ok"

\* a loop that returns whatever dict the API gave
SucessoSemExame(res) == ~res.raise

\* "if resultado and resultado.get("CNPJ"): return resultado" after the call
\* of an API that did not raise
Sucesso(res) == ~res.raise /\ Aproveitavel(res.valor)

\* a loop that gives up after the first API that gave nothing
DesisteNaPrimeira(k) == Len(apis) + 1

\* the index of the API tried after the k-th gave nothing
ProximaApi(k) == k + 1

\* The end of consultar_cnpj_multiplas_fontes(empresa["CNPJ"]) with
\* dados_completos, and the rest of the turn of Etapa 2: the row is kept, the
\* next company follows or the results are stored and reported.
FinalizaEmpresa(dados_completos, sucesso) ==
    /\ resultados_enriquecidos' =
           AnexaResultado(resultados_enriquecidos, dados_completos,
                          empresas_unicas[i_emp])
    /\ resumo' = Append(resumo, [chamadas |-> Len(chamadas'), sucesso |-> sucesso])
    /\ i_api' = 1
    /\ IF i_emp = Len(empresas_unicas)
       THEN /\ resultados_finais' = resultados_enriquecidos'
            /\ mensagens' = mensagens \cup {RelatorioFinal(resultados_enriquecidos')}
            /\ pc' = "fim"
            /\ i_emp' = i_emp
       ELSE /\ i_emp' = i_emp + 1
            /\ UNCHANGED <<resultados_finais, mensagens, pc>>

\* One turn of "for api_func in apis" for the company of the turn of Etapa 2:
\* the API is called; a usable dict ends the loop, an exception or a dict
\* without CNPJ moves to the next API, and after the last API {} is returned.
ConsultarApi ==
    /\ pc = "enriquecimento"
    /\ LET empresa == empresas_unicas[i_emp]
           cnpj == Get(empresa, "CNPJ", <<>>)
       IN  \E resposta \in RespostasApi(i_api, cnpj) :
             LET res == api_func(i_api, cnpj, resposta)
                 anteriores == IF i_api = 1 THEN <<>> ELSE chamadas
             IN  /\ chamadas' = Append(anteriores,
                        [api |-> apis[i_api],
                         aproveitavel |-> /\ ~res.raise
                                          /\ Get(res.valor, "CNPJ", <<>>) # <<>>,
                         http |-> res.http])
                 /\ ultima' = [api |-> apis[i_api], causa |-> Causa(resposta, res),
                               cnpj |-> cnpj, http |-> res.http,
                               vazio |-> res.valor = DictVazio]
                 /\ IF Sucesso(res)
                    THEN FinalizaEmpresa(res.valor, TRUE)
                    ELSE IF ProximaApi(i_api) <= Len(apis)
                    THEN /\ i_api' = ProximaApi(i_api)
                         /\ UNCHANGED <<i_emp, resumo, resultados_enriquecidos,
                                        resultados_finais, mensagens, pc>>
                    ELSE FinalizaEmpresa(DictVazio, FALSE)
    /\ UNCHANGED <<rodada, primeira, extras>>
    /\ UNCHANGED <<cnaes_usar, uf_selecionada, max_empresas_por_cnae,
                   incluir_dados_simulados, i_cnae, todas_empresas, coleta,
                   empresas_unicas>>

Next ==
    \/ Iniciar
    \/ ColetaCnae
    \/ Deduplicar
    \/ ConsultarApi

Spec == Init /\ [][Next]_vars

\* ------------------------------------------------------------------------
\* Etapa 1 over the runs of one session, with st.cache_data
\* ------------------------------------------------------------------------

\* runs of one session followed
MaxRodadas == 2

\* the clock stops here
MaxRelogio == 2

\* what the network may answer to a discovery request of these runs
RespostasCnpjaSessao == {Timeout, OutraExcecao, Ok(PgLinks), Ok(PaginaQuebrada)}
RespostasConsultaSessao ==
    {Depois(Timeout, Timeout),
     Depois(Ok(PgCards), Ok(PgCards)),
     Depois(OutraExcecao, OutraExcecao),
     Depois(Timeout, Ok(PgCards)),
     Depois(StatusErro, OutraExcecao)}

\* The button is pressed again after a run, the state and the sliders as
\* they are or changed: the caches stay, the clock does not go back.
Reiniciar ==
    /\ pc \in {"coletado", "abortado"}
    /\ rodada < MaxRodadas
    /\ \E max_cnaes \in 1..MaxCnaes :
           cnaes_usar' = Slice(CNAES_MINERACAO, 0, max_cnaes)
    /\ uf_selecionada' \in UFs
    /\ max_empresas_por_cnae' \in 1..MaxEmpresas
    /\ resultados_finais' = <<>>
    /\ todas_empresas' = <<>>
    /\ i_cnae' = 1
    /\ pc' = "coleta"
    /\ rodada' = rodada + 1
    /\ pedidos_rodada' = 0
    /\ UNCHANGED <<incluir_dados_simulados, coleta, empresas_unicas, i_emp,
                   i_api, chamadas, ultima, resumo, resultados_enriquecidos,
                   mensagens, agora, caches, primeira, reaplicada, pagina>>

\* One turn of the loop of Etapa 1 in a session: the two sources are called
\* through their caches, the requests sent to the network are counted.  An
\* exception http_get does not catch leaves main(); the entries stored before
\* it stay.
ColetaCnaeSessao ==
    /\ pc = "coleta"
    /\ i_cnae <= Len(cnaes_usar)
    /\ \E rc \in RespostasCnpjaSessao,
          rs \in RespostasConsultaSessao,
          sorteio \in Sorteios :
         LET cnae == cnaes_usar[i_cnae]
             cnpja == buscar_empresas_cnpja_scraping(
                          caches, cnae, uf_selecionada, max_empresas_por_cnae,
                          rc, agora)
             consulta == buscar_empresas_consultacnpj_alternativo(
                             cnpja.caches, cnae, uf_selecionada,
                             max_empresas_por_cnae, rs, agora)
             simuladas == IF incluir_dados_simulados
                          THEN gerar_cnpjs_simulados_mineracao(sorteio, QtdSimuladas)
                          ELSE <<>>
             ultimo == i_cnae = Len(cnaes_usar)
         IN  IF cnpja.raise
             THEN /\ pc' = "abortado"
                  /\ caches' = cnpja.caches
                  /\ pedidos_rodada' = pedidos_rodada + cnpja.pedidos
                  /\ UNCHANGED <<todas_empresas, i_cnae, primeira>>
             ELSE IF consulta.raise
             THEN /\ pc' = "abortado"
                  /\ caches' = consulta.caches
                  /\ pedidos_rodada' = pedidos_rodada + cnpja.pedidos + consulta.pedidos
                  /\ UNCHANGED <<todas_empresas, i_cnae, primeira>>
             ELSE /\ todas_empresas' = EstendeTodas(
                         todas_empresas, cnpja.valor, consulta.valor, simuladas)
                  /\ caches' = consulta.caches
                  /\ pedidos_rodada' = pedidos_rodada + cnpja.pedidos + consulta.pedidos
                  /\ i_cnae' = i_cnae + 1
                  /\ pc' = IF ultimo THEN "coletado" ELSE "coleta"
                  /\ primeira' = IF ultimo /\ rodada = 1
                                 THEN [primeira EXCEPT !.completa = TRUE]
                                 ELSE primeira
    /\ UNCHANGED <<cnaes_usar, uf_selecionada, max_empresas_por_cnae,
                   incluir_dados_simulados, coleta, empresas_unicas, i_emp,
                   i_api, chamadas, ultima, resumo, resultados_enriquecidos,
                   resultados_finais, mensagens, agora, rodada, reaplicada, pagina>>

\* a quarter of an hour passes, during a run or between two
Relogio ==
    /\ pc \in {"coleta", "coletado", "abortado"}
    /\ agora < MaxRelogio
    /\ agora' = agora + 1
    /\ UNCHANGED <<pc, cnaes_usar, uf_selecionada, max_empresas_por_cnae,
                   incluir_dados_simulados, i_cnae, todas_empresas, coleta,
                   empresas_unicas, i_emp, i_api, chamadas, ultima, resumo,
                   resultados_enriquecidos, resultados_finais, mensagens,
                   caches, rodada, pedidos_rodada, primeira, reaplicada, pagina>>

NextCache == Iniciar \/ Reiniciar \/ ColetaCnaeSessao \/ Relogio

SpecCache == Init /\ [][NextCache]_vars

\* ------------------------------------------------------------------------
\* The deduplication pass on lists of companies
\* ------------------------------------------------------------------------
\* The pass reads emp.get("CNPJ", "") and cleans it, so it is applied here to
\* companies whose CNPJ is written in any way: plain, formatted, empty.

\* longest list given to the pass
MaxLista == 3

\* the companies the lists are made of
EstoqueEmpresas ==
    {Empresa(NomeVale, CnpjA, <<"CNPJa">>),
     Empresa(NomeAlcoa, formata_cnpj(CnpjA), <<"ConsultaCNPJ">>),
     Empresa(NomeAlcoa, CnpjB, <<"CNPJa">>),
     Empresa(<<>>, CnpjA, <<"CNPJa Tabela">>),
     Empresa(NomeVale, <<>>, <<"CNPJa">>)}

\* the lists of at most MaxLista companies
Listas == UNION {[1..n -> EstoqueEmpresas] : n \in 0..MaxLista}

InitDedup ==
    /\ pc = "lista"
    /\ todas_empresas \in Listas
    /\ cnaes_usar = <<>>
    /\ uf_selecionada = UFPadrao
    /\ max_empresas_por_cnae = 1
    /\ incluir_dados_simulados = FALSE
    /\ i_cnae = 1
    /\ coleta = [cnpja |-> {}, consulta |-> {}, turnos |-> 0, achadas |-> 0]
    /\ empresas_unicas = <<>>
    /\ i_emp = 1
    /\ i_api = 1
    /\ chamadas = <<>>
    /\ ultima = SemChamada
    /\ resumo = <<>>
    /\ resultados_enriquecidos = <<>>
    /\ resultados_finais = <<>>
    /\ mensagens = {}
    /\ agora = 0
    /\ caches = CachesVazios
    /\ rodada = 0
    /\ pedidos_rodada = 0
    /\ primeira = SemRodada
    /\ reaplicada = <<>>
    /\ pagina = PgVazia

\* the pass on the list
AplicaDedup ==
    /\ pc = "lista"
    /\ empresas_unicas' = Dedup(todas_empresas)
    /\ pc' = "unicas"
    /\ UNCHANGED <<cnaes_usar, uf_selecionada, max_empresas_por_cnae,
                   incluir_dados_simulados, i_cnae, todas_empresas, coleta,
                   i_emp, i_api, chamadas, ultima, resumo,
                   resultados_enriquecidos, resultados_finais, mensagens,
                   agora, caches, rodada, pedidos_rodada, primeira, reaplicada, pagina>>

\* the pass on what the pass returned
ReaplicaDedup ==
    /\ pc = "unicas"
    /\ reaplicada' = Dedup(empresas_unicas)
    /\ pc' = "reaplicada"
    /\ UNCHANGED <<cnaes_usar, uf_selecionada, max_empresas_por_cnae,
                   incluir_dados_simulados, i_cnae, todas_empresas, coleta,
                   empresas_unicas, i_emp, i_api, chamadas, ultima, resumo,
                   resultados_enriquecidos, resultados_finais, mensagens,
                   agora, caches, rodada, pedidos_rodada, primeira, pagina>>

NextDedup == AplicaDedup \/ ReaplicaDedup

SpecDedup == InitDedup /\ [][NextDedup]_vars

\* ------------------------------------------------------------------------
\* One call of a discovery function on a page
\* ------------------------------------------------------------------------
\* buscar_empresas_cnpja_scraping and buscar_empresas_consultacnpj_alternativo
\* are called once, from empty caches, on a page made of links, tables and
\* cards, with a value of the slider max_empresas_por_cnae.

\* most tables a page holds
MaxTabelas == 3

\* a table with a header and one company
TabelaUma ==
    << <<NomeVale, <<"C", "N", "P", "J">> >>,
       <<NomeVale, formata_cnpj(CnpjA)>> >>

\* a table with a header and two companies, the second without a name
TabelaDuas ==
    << <<NomeAlcoa, <<"C", "N", "P", "J">> >>,
       <<NomeAlcoa, formata_cnpj(CnpjB)>>,
       << <<>>, formata_cnpj(CnpjA) >> >>

\* the tables of a page, in the order of the document
SeqsTabelas == UNION {[1..n -> {TabelaUma, TabelaDuas}] : n \in 0..MaxTabelas}

\* the pages the functions are called on
Paginas ==
    {PaginaQuebrada} \cup
    {Pagina(links, tabelas, cards) :
        links \in {<<>>, PgLinks.links},
        tabelas \in SeqsTabelas,
        cards \in {<<>>, PgCards.cards}}

InitDescoberta ==
    /\ pc = "pagina"
    /\ pagina \in Paginas
    /\ max_empresas_por_cnae \in 1..MaxEmpresas
    /\ cnaes_usar = Slice(CNAES_MINERACAO, 0, 1)
    /\ uf_selecionada = UFPadrao
    /\ incluir_dados_simulados = FALSE
    /\ i_cnae = 1
    /\ todas_empresas = <<>>
    /\ coleta = [cnpja |-> {}, consulta |-> {}, turnos |-> 0, achadas |-> 0]
    /\ empresas_unicas = <<>>
    /\ i_emp = 1
    /\ i_api = 1
    /\ chamadas = <<>>
    /\ ultima = SemChamada
    /\ resumo = <<>>
    /\ resultados_enriquecidos = <<>>
    /\ resultados_finais = <<>>
    /\ mensagens = {}
    /\ agora = 0
    /\ caches = CachesVazios
    /\ rodada = 0
    /\ pedidos_rodada = 0
    /\ primeira = SemRodada
    /\ reaplicada = <<>>

\* what a call leaves alone
FixasDescoberta ==
    <<pagina, max_empresas_por_cnae, cnaes_usar, uf_selecionada,
      incluir_dados_simulados, i_cnae, coleta, empresas_unicas, i_emp, i_api,
      chamadas, ultima, resumo, resultados_enriquecidos, resultados_finais,
      mensagens, agora, caches, rodada, pedidos_rodada, primeira, reaplicada>>

\* empresas_cnpja = buscar_empresas_cnpja_scraping(cnae, uf, max_empresas),
\* the request answered with the page; todas_empresas.extend(empresas_cnpja)
ChamaCnpja ==
    /\ pc = "pagina"
    /\ todas_empresas' =
           buscar_empresas_cnpja_scraping(
               caches, cnaes_usar[1], uf_selecionada, max_empresas_por_cnae,
               Ok(pagina), agora).valor
    /\ pc' = "cnpja"
    /\ UNCHANGED FixasDescoberta

\* empresas_consulta = buscar_empresas_consultacnpj_alternativo(cnae, uf,
\* max_empresas), every request answered with the page;
\* todas_empresas.extend(empresas_consulta)
ChamaConsulta ==
    /\ pc = "pagina"
    /\ todas_empresas' =
           buscar_empresas_consultacnpj_alternativo(
               caches, cnaes_usar[1], uf_selecionada, max_empresas_por_cnae,
               Depois(Ok(pagina), Ok(pagina)), agora).valor
    /\ pc' = "consulta"
    /\ UNCHANGED FixasDescoberta

NextDescoberta == ChamaCnpja \/ ChamaConsulta

SpecDescoberta == InitDescoberta /\ [][NextDescoberta]_vars

\* ------------------------------------------------------------------------
\* consultar_cnpj_multiplas_fontes on ids written in any way
\* ------------------------------------------------------------------------
\* The function takes any string.  It is applied here, as the loop of Etapa 2
\* applies it, to lists of companies whose ids are empty, too short, too long,
\* without digits, or well formed.

\* longest list of ids
MaxIds == 2

\* CnpjA without its last digit, and with one digit more
Cnpj13 == Slice(CnpjA, 0, TamanhoCnpj - 1)
Cnpj15 == CnpjA \o <<"1">>

\* CnpjA as formata_cnpj writes it, without its last digit
Cnpj13Formatado == Slice(formata_cnpj(CnpjA), 0, Len(formata_cnpj(CnpjA)) - 1)

\* the ids the function is given
Ids ==
    {<<>>,
     Cnpj13,
     Cnpj15,
     Cnpj13 \o <<"X">>,
     <<"N", "/", "A">>,
     Cnpj13Formatado,
     CnpjA,
     formata_cnpj(CnpjB)}

\* the lists of companies the loop walks
ListasIds ==
    UNION {[1..n -> {Empresa(NomeVale, id, <<"entrada">>) : id \in Ids}] :
              n \in 1..MaxIds}

InitRegistro ==
    /\ pc = "enriquecimento"
    /\ empresas_unicas \in ListasIds
    /\ todas_empresas = empresas_unicas
    /\ cnaes_usar = <<>>
    /\ uf_selecionada = UFPadrao
    /\ max_empresas_por_cnae = 1
    /\ incluir_dados_simulados = FALSE
    /\ i_cnae = 1
    /\ coleta = [cnpja |-> {}, consulta |-> {}, turnos |-> 0, achadas |-> 0]
    /\ i_emp = 1
    /\ i_api = 1
    /\ chamadas = <<>>
    /\ ultima = SemChamada
    /\ resumo = <<>>
    /\ resultados_enriquecidos = <<>>
    /\ resultados_finais = <<>>
    /\ mensagens = {}
    /\ agora = 0
    /\ caches = CachesVazios
    /\ rodada = 0
    /\ pedidos_rodada = 0
    /\ primeira = SemRodada
    /\ reaplicada = <<>>
    /\ pagina = PgVazia

NextRegistro == ConsultarApi

SpecRegistro == InitRegistro /\ [][NextRegistro]_vars



\* ------------------------------------------------------------------------
\* Properties of a run
\* ------------------------------------------------------------------------

\* the position of an API in apis
IndiceApi(nome) == CHOOSE k \in 1..Len(apis) : apis[k] = nome

\* the ways a call of an API fails transiently
FalhasTransitorias == {"timeout", "status", "json_invalido", "excecao"}

\* the latest company whose enrichment ended, 0 when none did
UltimaEnriquecida == Len(resumo)

\* chamadas is the whole list of calls made for the company UltimaEnriquecida
EnriquecimentoEncerrado ==
    /\ resumo # <<>>
    /\ chamadas # <<>>
    /\ pc = "fim" \/ (pc = "enriquecimento" /\ i_api = 1)

\* the companies, by position in empresas_unicas, whose enrichment gave a dict
ComSucesso == {i \in 1..Len(resumo) : resumo[i].sucesso}

\* the position in empresas_unicas of the company of the j-th row kept
EmpresaDaLinha(j) ==
    CHOOSE i \in ComSucesso : Cardinality({m \in ComSucesso : m <= i}) = j

\* C1: when an API fails transiently (timeout, non-2xx status, malformed
\* payload, exception) the enrichment of the company goes on with the next API
\* of the list, the list is walked until an API succeeds or none is left, and
\* the companies that follow are enriched too.
TeoremaC1 ==
    /\ (ultima.causa \in FalhasTransitorias) =>
           LET k == IndiceApi(ultima.api)
           IN  IF k < Len(apis)
               THEN /\ pc = "enriquecimento"
                    /\ i_api = k + 1
                    /\ i_emp = Len(resumo) + 1
                    /\ Len(chamadas) = k
               ELSE /\ Len(chamadas) = Len(apis)
                    /\ resumo # <<>>
                    /\ ~resumo[Len(resumo)].sucesso
                    /\ IF Len(resumo) < Len(empresas_unicas)
                       THEN pc = "enriquecimento" /\ i_emp = Len(resumo) + 1 /\ i_api = 1
                       ELSE pc = "fim"
    /\ \A i \in 1..Len(resumo) :
           resumo[i].sucesso \/ resumo[i].chamadas = Len(apis)
    /\ pc = "enriquecimento" => i_emp = Len(resumo) + 1 /\ i_emp <= Len(empresas_unicas)
    /\ (pc = "fim" /\ empresas_unicas # <<>>) => Len(resumo) = Len(empresas_unicas)

\* C1 happens: the first company got nothing from the three APIs, the second
\* is being enriched, its first API timed out and its second API is next.
WitnessC1 ==
    /\ pc = "enriquecimento"
    /\ Len(resumo) = 1
    /\ ~resumo[1].sucesso
    /\ i_emp = 2
    /\ ultima.api = "BrasilAPI"
    /\ ultima.causa = "timeout"
    /\ i_api = 2

\* C2: for each company the APIs are called in the order BrasilAPI, ReceitaWS,
\* CNPJ.ws, each at most once, an API only after all before it gave no usable
\* dict; the dict returned is that of the first API that gave a CNPJ, and no
\* API is called after it.
TeoremaC2 ==
    /\ Len(chamadas) <= Len(apis)
    /\ \A j \in 1..Len(chamadas) :
           /\ chamadas[j].api = apis[j]
           /\ j < Len(chamadas) => ~chamadas[j].aproveitavel
    /\ (pc = "enriquecimento" /\ i_api > 1) =>
           /\ Len(chamadas) = i_api - 1
           /\ ~chamadas[Len(chamadas)].aproveitavel
    /\ EnriquecimentoEncerrado =>
           LET n == Len(chamadas)
               feita == resumo[UltimaEnriquecida]
           IN  /\ feita.chamadas = n
               /\ feita.sucesso = chamadas[n].aproveitavel
               /\ ~feita.sucesso => n = Len(apis)
               /\ feita.sucesso =>
                      LET linha == resultados_enriquecidos[Len(resultados_enriquecidos)]
                      IN  /\ linha.Fonte = <<chamadas[n].api>>
                          /\ limpa_cnpj(linha.CNPJ) =
                                 limpa_cnpj(empresas_unicas[UltimaEnriquecida].CNPJ)
    /\ Len(resultados_enriquecidos) = Cardinality(ComSucesso)

\* C2 happens: the first two APIs gave nothing usable for a company and the
\* dict of the third was returned.
WitnessC2 ==
    /\ EnriquecimentoEncerrado
    /\ Len(chamadas) = 3
    /\ chamadas[3].aproveitavel
    /\ resultados_enriquecidos[Len(resultados_enriquecidos)].Fonte = <<"CNPJ.ws">>

\* C3 as claimed: at the end of a run every company that survived the
\* deduplication has a row in the final results, also when all the APIs
\* failed for it.
ContraC3 ==
    (pc = "fim" /\ empresas_unicas # <<>>) =>
        \A i \in 1..Len(empresas_unicas) :
            \E j \in 1..Len(resultados_finais) :
                limpa_cnpj(Get(resultados_finais[j], "CNPJ", <<>>))
                    = limpa_cnpj(empresas_unicas[i].CNPJ)

\* C3 amended: at the end of a run the final results hold a row for a company
\* exactly when one of the APIs returned a usable dict for it, in the order of
\* the companies; a company for which every API failed or had no data has no
\* row.
TeoremaC3 ==
    (pc = "fim" /\ empresas_unicas # <<>>) =>
        /\ Len(resumo) = Len(empresas_unicas)
        /\ Len(resultados_finais) = Cardinality(ComSucesso)
        /\ \A j \in 1..Len(resultados_finais) :
               limpa_cnpj(Get(resultados_finais[j], "CNPJ", <<>>))
                   = limpa_cnpj(empresas_unicas[EmpresaDaLinha(j)].CNPJ)
        /\ \A i \in 1..Len(empresas_unicas) :
               (\E j \in 1..Len(resultados_finais) :
                    limpa_cnpj(Get(resultados_finais[j], "CNPJ", <<>>))
                        = limpa_cnpj(empresas_unicas[i].CNPJ))
               <=> resumo[i].sucesso

\* C3 happens: a run ended with a company that has a row and a company, for
\* which the three APIs gave nothing, that has none.
WitnessC3 ==
    /\ pc = "fim"
    /\ Len(empresas_unicas) >= 2
    /\ \E i \in 1..Len(resumo) : ~resumo[i].sucesso /\ resumo[i].chamadas = Len(apis)
    /\ resultados_finais # <<>>

\* the deduplication has run
Deduplicado == pc \in {"enriquecimento", "fim"}

\* the positions in todas_empresas of the companies with the clean CNPJ c
Grupo(c) == {i \in 1..Len(todas_empresas) : limpa_cnpj(todas_empresas[i].CNPJ) = c}

\* the first non-empty value of the field f in the group of c, in the order of
\* discovery, <<>> when every value is empty
PrimeiroNaoVazio(c, f) ==
    LET comValor == {i \in Grupo(c) : todas_empresas[i][f] # <<>>}
    IN  IF comValor = {} THEN <<>>
        ELSE todas_empresas[CHOOSE i \in comValor : \A m \in comValor : i <= m][f]

\* the earliest company of the group of c
Primeira(c) == todas_empresas[CHOOSE i \in Grupo(c) : \A m \in Grupo(c) : i <= m]

\* the pass has been applied to the list
PassouDedup == pc \in {"unicas", "reaplicada"}

\* the digits of a CNPJ as written
RECURSIVE SoDigitos(_)
SoDigitos(cnpj) ==
    IF cnpj = <<>> THEN <<>>
    ELSE IF Head(cnpj) \in Digitos THEN <<Head(cnpj)>> \o SoDigitos(Tail(cnpj))
         ELSE SoDigitos(Tail(cnpj))

\* the position in todas_empresas of the earliest company whose CNPJ has the
\* digits of the k-th company kept
PosicaoOrigem(k) ==
    CHOOSE i \in 1..Len(todas_empresas) :
        /\ SoDigitos(todas_empresas[i].CNPJ) = SoDigitos(empresas_unicas[k].CNPJ)
        /\ \A m \in 1..(i - 1) :
               SoDigitos(todas_empresas[m].CNPJ) # SoDigitos(empresas_unicas[k].CNPJ)

\* C4: the deduplication is idempotent: the pass applied to the list the pass
\* returned returns that list, the same companies in the same order.
TeoremaC4 == pc = "reaplicada" => reaplicada = empresas_unicas

\* C4 happens: the pass dropped companies of a list, kept at least two, and
\* was applied again to what it kept.
WitnessC4 ==
    /\ pc = "reaplicada"
    /\ Len(empresas_unicas) >= 2
    /\ Len(empresas_unicas) < Len(todas_empresas)
    /\ reaplicada = empresas_unicas

\* C5: after the pass no two companies kept have the same digits in their
\* CNPJ and none has a CNPJ without digits; every CNPJ with digits of the
\* list is the CNPJ of one company kept, so the formatted and the plain
\* writing of a CNPJ collapse to one company; the companies kept are a
\* subsequence of the list in its order; and the company kept for a CNPJ is
\* the earliest company of the list with that CNPJ.
TeoremaC5 ==
    PassouDedup =>
        /\ \A k \in 1..Len(empresas_unicas) :
               SoDigitos(empresas_unicas[k].CNPJ) # <<>>
        /\ \A k, l \in 1..Len(empresas_unicas) :
               k # l => SoDigitos(empresas_unicas[k].CNPJ)
                            # SoDigitos(empresas_unicas[l].CNPJ)
        /\ \A i \in 1..Len(todas_empresas) :
               SoDigitos(todas_empresas[i].CNPJ) # <<>> =>
                   \E k \in 1..Len(empresas_unicas) :
                       SoDigitos(empresas_unicas[k].CNPJ)
                           = SoDigitos(todas_empresas[i].CNPJ)
        /\ \A k \in 1..Len(empresas_unicas) :
               /\ \E i \in 1..Len(todas_empresas) :
                      SoDigitos(todas_empresas[i].CNPJ)
                          = SoDigitos(empresas_unicas[k].CNPJ)
               /\ empresas_unicas[k] = todas_empresas[PosicaoOrigem(k)]
        /\ \A k, l \in 1..Len(empresas_unicas) :
               k < l => PosicaoOrigem(k) < PosicaoOrigem(l)

\* C5 happens: the list holds a CNPJ plain and then formatted, and a second
\* CNPJ after them; the pass kept the plain one and the second, in that order.
WitnessC5 ==
    /\ pc = "unicas"
    /\ Len(todas_empresas) = 3
    /\ todas_empresas[1].CNPJ = CnpjA
    /\ todas_empresas[2].CNPJ = formata_cnpj(CnpjA)
    /\ todas_empresas[3].CNPJ = CnpjB
    /\ empresas_unicas = <<todas_empresas[1], todas_empresas[3]>>

FalhasDescoberta == {"timeout", "status", "parse"}

\* a request of a discovery source failed in this run
FalhouDescoberta == (coleta.cnpja \cup coleta.consulta) \cap FalhasDescoberta # {}

TeoremaC8 ==
    /\ pc # "fim" => mensagens = {}
    /\ pc = "fim" =>
           /\ "nenhuma_empresa" \in mensagens <=> empresas_unicas = <<>>
           /\ "nenhuma_empresa" \in mensagens =>
                  ultima.api = "" /\ chamadas = <<>> /\ resumo = <<>>
           /\ "falha_enriquecimento" \in mensagens <=>
                  (empresas_unicas # <<>> /\ ComSucesso = {})
           /\ "concluida" \in mensagens <=> ComSucesso # {}
           /\ Cardinality(mensagens) = 1

\* C8 happens: a run found two companies or more and ended with the report
\* that none was enriched.
WitnessC8 ==
    /\ pc = "fim"
    /\ Len(empresas_unicas) >= 2
    /\ mensagens = {"falha_enriquecimento"}

MesmaBusca ==
    /\ rodada >= 2
    /\ cnaes_usar = primeira.cnaes
    /\ uf_selecionada = primeira.uf

\* less than the time to live has passed since the first run started
DentroDoTtl == agora - primeira.inicio < TtlDescoberta

\* C10 as claimed: a run with the CNAE codes and the state of the first run,
\* within the time to live, sends no discovery request to the network,
\* however the requests of the first run ended.
ContraC10 == (MesmaBusca /\ DentroDoTtl) => pedidos_rodada = 0

\* C10 amended: a run with the CNAE codes, the state and the limit of
\* companies per CNAE of the first run, within the time to live counted from
\* the start of the first run, sends no discovery request to the network when
\* Etapa 1 of the first run ran to its end, whether its requests were answered
\* or failed with a timeout or an HTTP error status.
TeoremaC10 ==
    (/\ MesmaBusca
     /\ max_empresas_por_cnae = primeira.max_empresas
     /\ primeira.completa
     /\ DentroDoTtl) => pedidos_rodada = 0

\* C10 happens: the first run got no answer from cnpja.com, and a second run
\* with the same inputs, a quarter of an hour later, finished Etapa 1 without
\* a request sent.
WitnessC10 ==
    /\ MesmaBusca
    /\ max_empresas_por_cnae = primeira.max_empresas
    /\ primeira.completa
    /\ DentroDoTtl
    /\ agora > primeira.inicio
    /\ pc = "coletado"
    /\ UrlCnpja(cnaes_usar[1]) \in DOMAIN caches.http
    /\ caches.http[UrlCnpja(cnaes_usar[1])].valor = None
    /\ pedidos_rodada = 0

ContraC13 ==
    /\ \A i \in 1..Len(todas_empresas) : todas_empresas[i].Nome # <<>>
    /\ \A i \in 1..Len(empresas_unicas) : empresas_unicas[i].Nome # <<>>

\* C13 fails: a company without a name, found in a table row of cnpja.com,
\* was kept by the deduplication and an API was called for it.
WitnessC13 ==
    /\ pc = "enriquecimento"
    /\ empresas_unicas[i_emp].Nome = <<>>
    /\ empresas_unicas[i_emp].Origem[1] = "CNPJa Tabela - CNAE"
    /\ i_api = 2
    /\ Len(chamadas) = 1

\* C12 as claimed: one call of a discovery function returns at most
\* max_empresas companies, whatever the page holds.
ContraC12 ==
    pc \in {"cnpja", "consulta"} => Len(todas_empresas) <= max_empresas_por_cnae

\* C12 fails: buscar_empresas_cnpja_scraping, called with max_empresas = 2 on
\* a page without links whose three tables hold one company each, returned
\* three companies.
WitnessC12 ==
    /\ pc = "cnpja"
    /\ max_empresas_por_cnae = 2
    /\ pagina = Pagina(<<>>, <<TabelaUma, TabelaUma, TabelaUma>>, <<>>)
    /\ Len(todas_empresas) = 3

\* the id does not clean to exactly 14 digits
IdInvalido(cnpj) == Len(SoDigitos(cnpj)) # TamanhoCnpj

\* C14: for an id whose digits are not exactly 14, each adapter returns an
\* empty dict without calling http_get, so no request is sent for it, and
\* consultar_cnpj_multiplas_fontes returns an empty dict after it tried the
\* three adapters; no row is kept for it.
TeoremaC14 ==
    /\ (ultima.api # "" /\ IdInvalido(ultima.cnpj)) =>
           /\ ultima.http = 0
           /\ ultima.vazio
           /\ \A j \in 1..Len(chamadas) :
                  chamadas[j].http = 0 /\ ~chamadas[j].aproveitavel
    /\ \A i \in 1..Len(resumo) :
           IdInvalido(empresas_unicas[i].CNPJ) =>
               resumo[i].chamadas = Len(apis) /\ ~resumo[i].sucesso
    /\ \A j \in 1..Len(resultados_enriquecidos) :
           ~IdInvalido(empresas_unicas[EmpresaDaLinha(j)].CNPJ)

\* C14 happens: the function was given a formatted id of 13 digits and then a well
\* formed one; the three adapters were called for the first and sent nothing,
\* the first adapter was called for the second and sent its request.
WitnessC14 ==
    /\ pc = "enriquecimento"
    /\ Len(empresas_unicas) = 2
    /\ empresas_unicas[1].CNPJ = Cnpj13Formatado
    /\ resumo = <<[chamadas |-> 3, sucesso |-> FALSE]>>
    /\ resultados_enriquecidos = <<>>
    /\ ultima.api = "BrasilAPI"
    /\ ultima.cnpj = CnpjA
    /\ ultima.http = 1
    /\ ultima.causa = "timeout"

====
